---- MODULE Spec2Model ----
(***************************************************************************)
(* A model of src/python.cpp: the bridge between the host runtime (R) and  *)
(* the guest runtime (Python 2, with numpy).                               *)
(*                                                                         *)
(* The guest heap is a set of reference-counted objects.  The objects that *)
(* exist before the bridge is used (None, True, False, the __main__        *)
(* module, its attributes) are on the heap from the start; the objects the *)
(* bridge creates live in MaxDyn further slots.                            *)
(* The host side owns guest references through opaque wrappers (external   *)
(* pointers), counted per guest object.                                    *)
(*                                                                         *)
(* Bytes are small integers (0 is the NUL byte), a string is a sequence of *)
(* bytes.  A double is represented by an integer (only integral doubles    *)
(* are drawn).  The widths of the C types int and long are scaled down to  *)
(* IntBits and LongBits bits, so that their overflow is within the values  *)
(* the model checker can represent.                                        *)
(***************************************************************************)
EXTENDS Integers, Sequences, FiniteSets, TLC

VARIABLES
    rc,      \* reference count of every guest object
    dyn,     \* body of every guest object (a free slot holds FreeBody)
    wraps,   \* number of live opaque wrappers per guest object
    err,     \* the guest error indicator
    held,    \* a reference returned by r_to_py that its caller still owns
    last,    \* what the last operation was given and what it gave
    faults,  \* number of operations that did not return normally so far
    raised,  \* number of py_call invocations whose callable raised so far
    hnd      \* the Handles (PyObjectPtr) of the Handle life cycle

vars == <<rc, dyn, wraps, err, held, last, faults, raised, hnd>>

----------------------------------------------------------------------------
(* Bounds of the model *)

\* slots for guest objects created after start-up
MaxDyn == 6
\* live opaque wrappers
MaxWrap == 2
\* operations counted as having ended in a host fault
MaxFault == 1
\* calls counted as having invoked a callable that raised
MaxRaised == 1
\* Handles of the Handle life cycle
MaxHnd == 2
\* width of the C type int, scaled down
IntBits == 3
\* width of the C type long, scaled down
LongBits == 5

NULL == 0

IntMin == 0 - 2^(IntBits - 1)
IntMax == 2^(IntBits - 1) - 1
LongMin == 0 - 2^(LongBits - 1)
LongMax == 2^(LongBits - 1) - 1

\* the C conversion of a long to an int (modular on every supported build)
ToInt(v) == ((v - IntMin) % 2^IntBits) + IntMin

\* the bytes of a C string: those before the first NUL
RECURSIVE CStr(_)
CStr(s) ==
    IF s = <<>> \/ Head(s) = 0 THEN <<>> ELSE <<Head(s)>> \o CStr(Tail(s))

RECURSIVE SeqCount(_, _)
SeqCount(s, x) ==
    IF s = <<>> THEN 0
    ELSE (IF Head(s) = x THEN 1 ELSE 0) + SeqCount(Tail(s), x)

----------------------------------------------------------------------------
(* The guest objects that exist at start-up *)

NoArr == [typenum |-> "", dims |-> <<>>, data |-> <<>>, forder |-> TRUE]

Body(t, ival, sval, items, keys, fields) ==
    [t |-> t, ival |-> ival, sval |-> sval, items |-> items, keys |-> keys,
     fields |-> fields, fn |-> "", arr |-> NoArr]

FreeBody == Body("free", 0, <<>>, <<>>, <<>>, NULL)

StaticNames ==
    << "None", "True", "False", "main",
       "f_id", "f_none", "f_raise", "f_raise_noval", "f_raise_nostr",
       "obj", "i1", "i2", "ibig", "l3", "lhuge", "x1", "x2",
       "sa", "sb", "snul",
       "lst_int", "lst_big", "lst_bool", "lst_flt", "lst_str", "lst_mixed",
       "lst_boolint", "lst_empty", "lst_obj", "lst_huge",
       "tup", "tup_empty", "nt", "flds_xy", "nt_bad", "flds_bad",
       "nt_short", "flds_short", "nt_lst", "flds_lst",
       "dct", "dct_bad", "dct_empty", "arr_c", "arr_f", "arr_cplx" >>

NStatic == Len(StaticNames)

Id(n) == CHOOSE i \in 1..NStatic : StaticNames[i] = n

Py_None == Id("None")
Py_True == Id("True")
Py_False == Id("False")
MainModule == Id("main")

Scalar(t, v) == Body(t, v, <<>>, <<>>, <<>>, NULL)
Str(s) == Body("str", 0, s, <<>>, <<>>, NULL)
List(items) == Body("list", 0, <<>>, items, <<>>, NULL)
Tuple(items, fields) == Body("tuple", 0, <<>>, items, <<>>, fields)
Dict(keys, items) == Body("dict", 0, <<>>, items, keys, NULL)
Function(fn) == [Body("function", 0, <<>>, <<>>, <<>>, NULL) EXCEPT !.fn = fn]
NdArray(typenum, dims, data, forder) ==
    [Body("ndarray", 0, <<>>, <<>>, <<>>, NULL) EXCEPT
        !.arr = [typenum |-> typenum, dims |-> dims, data |-> data,
                 forder |-> forder]]

StaticDef(n) ==
    CASE n = "None" -> Body("NoneType", 0, <<>>, <<>>, <<>>, NULL)
      [] n = "True" -> Scalar("bool", 1)
      [] n = "False" -> Scalar("bool", 0)
      [] n = "main" -> Body("module", 0, <<>>, <<>>, <<>>, NULL)
      [] n = "f_id" -> Function("id")
      [] n = "f_none" -> Function("none")
      [] n = "f_raise" -> [Function("raise") EXCEPT !.sval = <<3, 4>>]
      [] n = "f_raise_noval" -> Function("raise_noval")
      [] n = "f_raise_nostr" -> Function("raise_nostr")
      [] n = "obj" -> Body("object", 0, <<>>, <<>>, <<>>, NULL)
      [] n = "i1" -> Scalar("int", 1)
      [] n = "i2" -> Scalar("int", 2)
      [] n = "ibig" -> Scalar("int", IntMax + 1)
      [] n = "l3" -> Scalar("long", 3)
      [] n = "lhuge" -> Scalar("long", LongMax + 1)
      [] n = "x1" -> Scalar("float", 1)
      [] n = "x2" -> Scalar("float", 2)
      [] n = "sa" -> Str(<<1>>)
      [] n = "sb" -> Str(<<2>>)
      [] n = "snul" -> Str(<<1, 0, 2>>)
      [] n = "lst_int" -> List(<<Id("i1"), Id("i2")>>)
      [] n = "lst_big" -> List(<<Id("i1"), Id("ibig")>>)
      [] n = "lst_bool" -> List(<<Py_True, Py_False>>)
      [] n = "lst_flt" -> List(<<Id("x1"), Id("x2")>>)
      [] n = "lst_str" -> List(<<Id("sa"), Id("snul")>>)
      [] n = "lst_mixed" -> List(<<Id("i1"), Id("x1")>>)
      [] n = "lst_boolint" -> List(<<Py_True, Id("i1")>>)
      [] n = "lst_empty" -> List(<<>>)
      [] n = "lst_obj" -> List(<<Id("obj"), Id("i1")>>)
      [] n = "lst_huge" -> List(<<Id("l3"), Id("lhuge")>>)
      [] n = "tup" -> Tuple(<<Id("i1"), Id("sa")>>, NULL)
      [] n = "tup_empty" -> Tuple(<<>>, NULL)
      [] n = "nt" -> Tuple(<<Id("i1"), Id("i2")>>, Id("flds_xy"))
      [] n = "flds_xy" -> Tuple(<<Id("sa"), Id("sb")>>, NULL)
      [] n = "nt_bad" -> Tuple(<<Id("i1"), Id("i2")>>, Id("flds_bad"))
      [] n = "flds_bad" -> Tuple(<<Id("sa"), Id("i1")>>, NULL)
      [] n = "nt_short" -> Tuple(<<Id("i1"), Id("i2")>>, Id("flds_short"))
      [] n = "flds_short" -> Tuple(<<Id("sa")>>, NULL)
      [] n = "nt_lst" -> Tuple(<<Id("i1"), Id("i2")>>, Id("flds_lst"))
      [] n = "flds_lst" -> List(<<Id("sa"), Id("sb")>>)
      [] n = "dct" -> Dict(<<Id("sa"), Id("sb")>>, <<Id("i1"), Id("lst_int")>>)
      [] n = "dct_bad" -> Dict(<<Id("i1")>>, <<Id("sa")>>)
      [] n = "dct_empty" -> Dict(<<>>, <<>>)
      [] n = "arr_c" -> NdArray("NPY_SHORT", <<2, 2>>, <<1, 2, 3, IntMax>>, FALSE)
      [] n = "arr_f" -> NdArray("NPY_DOUBLE", <<2, 1>>, <<1, 2>>, TRUE)
      [] n = "arr_cplx" -> NdArray("NPY_CDOUBLE", <<1>>, <<1>>, TRUE)

StaticBody == [i \in 1..NStatic |-> StaticDef(StaticNames[i])]

ObjIds == 1..(NStatic + MaxDyn)

\* the references a body holds to other objects (a half-built tuple holds NULLs)
Children(b) == b.items \o b.keys

\* the reference count of a start-up object: one reference owned by the
\* interpreter itself, one per slot of a start-up container holding it
StaticInRefs(o) ==
    LET RECURSIVE Sum(_)
        Sum(i) == IF i = 0 THEN 0
                  ELSE SeqCount(Children(StaticBody[i]), o) + Sum(i - 1)
    IN Sum(NStatic)

Rc0 == [o \in ObjIds |-> IF o <= NStatic THEN 1 + StaticInRefs(o) ELSE 0]
Dyn0 == [o \in ObjIds |-> IF o <= NStatic THEN StaticBody[o] ELSE FreeBody]

----------------------------------------------------------------------------
(* The interpreter state threaded through every operator:                  *)
(*   rc, dyn  the guest heap; w  the wrappers; e  the error indicator      *)

\* the error indicator: whether an exception is set, whether it has a value,
\* the string form of the value, and whether the value has a string form at
\* all (str() of an exception whose message is non-ASCII unicode raises)
NoErr == [set |-> FALSE, hasval |-> FALSE, val |-> <<>>, nostr |-> FALSE]
ErrVal(s) == [set |-> TRUE, hasval |-> TRUE, val |-> s, nostr |-> FALSE]
ErrNoVal == [set |-> TRUE, hasval |-> FALSE, val |-> <<>>, nostr |-> FALSE]
ErrNoStr == [set |-> TRUE, hasval |-> TRUE, val |-> <<>>, nostr |-> TRUE]

\* the body of guest object o
B(m, o) == m.dyn[o]

FreeIds(m) == {o \in (NStatic + 1)..(NStatic + MaxDyn) : m.dyn[o].t = "free"}

\* a new guest object with one reference, owned by the caller
Alloc(m, body) ==
    LET o == CHOOSE f \in FreeIds(m) : \A g \in FreeIds(m) : f <= g
    IN [m |-> [m EXCEPT !.rc[o] = 1, !.dyn[o] = body], ref |-> o]

Py_IncRef(m, o) == IF o = NULL THEN m ELSE [m EXCEPT !.rc[o] = @ + 1]

\* Py_DecRef with the deallocation it triggers: an object whose count reaches
\* zero releases the references it holds and is freed
RECURSIVE Py_DecRef(_, _), DecRefAll(_, _)
Py_DecRef(m, o) ==
    IF o = NULL THEN m
    ELSE LET m1 == [m EXCEPT !.rc[o] = @ - 1]
         IN IF m1.rc[o] # 0 THEN m1
            ELSE DecRefAll([m1 EXCEPT !.dyn[o] = FreeBody], Children(m.dyn[o]))
DecRefAll(m, s) ==
    IF s = <<>> THEN m ELSE DecRefAll(Py_DecRef(m, Head(s)), Tail(s))

----------------------------------------------------------------------------
(* Handle: class PyObjectPtr *)

\* explicit PyObjectPtr(PyObject* object) : object_(object)
PyObjectPtr(object) == [object_ |-> object]

\* a detach that leaves the reference in the Handle
PyObjectPtr_detach_keeps(h) == [ptr |-> h.object_, h |-> h]

\* PyObject* detach(): the Handle gives up its reference
PyObjectPtr_detach(h) == [ptr |-> h.object_, h |-> [object_ |-> NULL]]

PyObjectPtr_is_null(h) == h.object_ = NULL

\* a destructor that releases nothing
PyObjectPtr_dtor_forgets(m, h) == m

\* virtual ~PyObjectPtr()
PyObjectPtr_dtor(m, h) ==
    IF h.object_ # NULL THEN Py_DecRef(m, h.object_) ELSE m

----------------------------------------------------------------------------
(* Host values *)

\* v holds the elements of a logical, integer or double vector, s those of a
\* string vector and l those of a generic list
HV(type, v) ==
    [type |-> type, v |-> v, s |-> <<>>, l |-> <<>>, names |-> <<>>,
     hasNames |-> FALSE, dim |-> <<>>, hasDim |-> FALSE, cls |-> <<>>,
     ptr |-> NULL]
HS(s) == [HV("STRSXP", <<>>) EXCEPT !.s = s]
HL(l) == [HV("VECSXP", <<>>) EXCEPT !.l = l]
Elts(x) == IF x.type = "STRSXP" THEN x.s ELSE IF x.type = "VECSXP" THEN x.l ELSE x.v

R_NilValue == HV("NILSXP", <<>>)

\* an external pointer to guest object o with the class attribute cls
XPtr(o, cls) == [HV("EXTPTRSXP", <<>>) EXCEPT !.cls = cls, !.ptr = o]

NoMsg == [src |-> "none", id |-> "", text |-> <<>>]
\* a message the bridge words itself
HostMsg(id) == [src |-> "host", id |-> id, text |-> <<>>]
\* a message that is the bytes of a guest string
GuestMsg(text) == [src |-> "guest", id |-> "", text |-> text]

\* the outcomes undefined behaviour can have in a build: the process dies, or
\* the C++ library throws and the host sees a fault
UBOutcomes == {"crash", "throw"}

----------------------------------------------------------------------------
(* The guest API the bridge calls *)

PyBool_Check(m, x) == B(m, x).t = "bool"
\* bool is a subclass of int
PyInt_Check(m, x) == B(m, x).t \in {"int", "bool"}
PyLong_Check(m, x) == B(m, x).t = "long"
PyFloat_Check(m, x) == B(m, x).t = "float"
PyString_Check(m, x) == B(m, x).t = "str"
PyList_Check(m, x) == B(m, x).t = "list"
PyTuple_Check(m, x) == B(m, x).t = "tuple"
PyDict_Check(m, x) == B(m, x).t = "dict"
PyArray_Check(m, x) == B(m, x).t = "ndarray"
PyCallable_Check(m, x) == B(m, x).t = "function"

PyList_Size(m, x) == Len(B(m, x).items)
PyTuple_Size(m, x) == Len(B(m, x).items)
\* a borrowed reference
PyList_GetItem(m, x, i) == B(m, x).items[i + 1]

\* the long of an int, or of a long that fits; a long that does not fit gives
\* -1 and sets OverflowError
PyInt_AsLong(m, x) ==
    LET v == B(m, x).ival
    IN IF PyLong_Check(m, x) /\ (v < LongMin \/ v > LongMax)
       THEN [m |-> [m EXCEPT !.e = ErrVal(<<5>>)], v |-> 0 - 1]
       ELSE [m |-> m, v |-> v]

PyFloat_AsDouble(m, x) == B(m, x).ival

\* the buffer of a string; NULL and TypeError for anything else
PyString_AsString(m, x) ==
    IF PyString_Check(m, x)
    THEN [m |-> m, null |-> FALSE, s |-> B(m, x).sval]
    ELSE [m |-> [m EXCEPT !.e = ErrVal(<<6>>)], null |-> TRUE, s |-> <<>>]

\* the attribute of an object by name, NULL when it has none: the attributes
\* of __main__ are the start-up objects by name, _fields is a tuple's own
AttrOf(m, x, name) ==
    IF name = "_fields" THEN B(m, x).fields
    ELSE IF x = MainModule /\ (\E i \in 1..NStatic : StaticNames[i] = name)
    THEN Id(name)
    ELSE NULL

PyObject_HasAttrString(m, x, name) == IF AttrOf(m, x, name) # NULL THEN 1 ELSE 0

\* a new reference, or NULL with AttributeError set
PyObject_GetAttrString(m, x, name) ==
    LET a == AttrOf(m, x, name)
    IN IF a # NULL THEN [m |-> Py_IncRef(m, a), ref |-> a]
       ELSE [m |-> [m EXCEPT !.e = ErrVal(<<7>>)], ref |-> NULL]

----------------------------------------------------------------------------
(* py_is_none, py_xptr, py_fetch_error *)

py_is_none(x) == x = Py_None

\* the wrapper takes over the caller's reference to object; its class attribute
\* is "<module>.<name>" of the object's class, then "py_object".  The three
\* Handles on the class, its module and its name release what they take.
py_xptr(m, object) ==
    [m |-> [m EXCEPT !.w[object] = @ + 1],
     val |-> XPtr(object, <<B(m, object).t, "py_object">>)]

\* PyObject_Str of an exception value: its string form, or NULL
PyObject_Str(e) == [null |-> e.nostr, s |-> e.val]

\* PyErr_Fetch clears the indicator; the message is the string form of the
\* exception value, written as a C string.  The result of PyObject_Str is
\* passed to PyString_AsString unchecked: when it is NULL the process dies.
\* out is "fault" when the caller can raise the message as a host fault.
py_fetch_error(m) ==
    [m |-> [m EXCEPT !.e = NoErr],
     out |-> IF m.e.set /\ m.e.hasval /\ PyObject_Str(m.e).null
             THEN "crash" ELSE "fault",
     msg |-> IF m.e.set /\ m.e.hasval THEN GuestMsg(CStr(PyObject_Str(m.e).s))
             ELSE HostMsg("<unknown error>")]

----------------------------------------------------------------------------
(* Type classifier *)

r_scalar_type(m, x) ==
    IF PyBool_Check(m, x) THEN "LGLSXP"
    ELSE IF PyInt_Check(m, x) \/ PyLong_Check(m, x) THEN "INTSXP"
    ELSE IF PyFloat_Check(m, x) THEN "REALSXP"
    ELSE IF PyString_Check(m, x) THEN "STRSXP"
    ELSE "NILSXP"

scalar_list_type(m, x) ==
    LET len == PyList_Size(m, x)
    IN IF len = 0 THEN "NILSXP"
       ELSE LET scalarType == r_scalar_type(m, PyList_GetItem(m, x, 0))
            IN IF scalarType = "NILSXP" THEN "NILSXP"
               ELSE IF \E i \in 1..(len - 1) :
                          r_scalar_type(m, PyList_GetItem(m, x, i)) # scalarType
               THEN "NILSXP"
               ELSE scalarType

----------------------------------------------------------------------------
(* Guest -> host conversion *)

\* the result of a conversion: out is "ok", "fault" (a host fault with msg)
\* or "crash" (the process died)
Ok(m, val) == [m |-> m, val |-> val, out |-> "ok", msg |-> NoMsg]
Fault(m, msg) == [m |-> m, val |-> R_NilValue, out |-> "fault", msg |-> msg]
Crash(m) == [m |-> m, val |-> R_NilValue, out |-> "crash", msg |-> NoMsg]

\* Rcpp::wrap of a bool, a long, a double and a std::string.  Rcpp represents
\* a C long by a host double (r_sexptype_traits<long>::rtype is REALSXP): a
\* host integer is an int, which a long does not fit in.
wrap_bool(b) == HV("LGLSXP", <<IF b THEN 1 ELSE 0>>)
wrap_long(v) == HV("REALSXP", <<v>>)
wrap_double(v) == HV("REALSXP", <<v>>)
wrap_string(s) == HS(<<s>>)

\* vec[i] = PyInt_AsLong(PyList_GetItem(x, i)) into an IntegerVector
RECURSIVE IntegerVectorOf(_, _)
IntegerVectorOf(m, items) ==
    IF items = <<>> THEN [m |-> m, v |-> <<>>]
    ELSE LET r == PyInt_AsLong(m, Head(items))
             rest == IntegerVectorOf(r.m, Tail(items))
         IN [m |-> rest.m, v |-> <<ToInt(r.v)>> \o rest.v]

\* py_tuple_to_character: vec[i] = PyString_AsString(PyTuple_GetItem(tuple, i));
\* for an item that is no string this assigns NULL to a string element, which
\* is undefined
RECURSIVE py_tuple_to_character(_, _, _)
py_tuple_to_character(m, items, ubc) ==
    IF items = <<>> THEN [m |-> m, vec |-> <<>>, out |-> "ok"]
    ELSE LET s == PyString_AsString(m, Head(items))
         IN IF s.null
            THEN [m |-> s.m, vec |-> <<>>,
                  out |-> IF ubc = "throw" THEN "fault" ELSE "crash"]
            ELSE LET rest == py_tuple_to_character(s.m, Tail(items), ubc)
                 IN [m |-> rest.m, vec |-> <<CStr(s.s)>> \o rest.vec,
                     out |-> rest.out]

\* list[name] = value on an Rcpp::List: the element of that name is replaced,
\* or the value is appended under the name
SetByName(list, name, val) ==
    IF \E i \in 1..Len(list.names) : list.names[i] = name
    THEN LET i == CHOOSE j \in 1..Len(list.names) :
                      /\ list.names[j] = name
                      /\ \A k \in 1..(j - 1) : list.names[k] # name
         IN [list EXCEPT !.l[i] = val]
    ELSE [list EXCEPT !.l = Append(@, val), !.names = Append(@, name),
                      !.hasNames = TRUE]

RECURSIVE Prod(_)
Prod(dims) == IF dims = <<>> THEN 1 ELSE Head(dims) * Prod(Tail(dims))

\* the offset in row-major (C) order of the element at column-major offset f
RECURSIVE COffset(_, _)
COffset(f, dims) ==
    IF dims = <<>> THEN 0
    ELSE (f % Head(dims)) * Prod(Tail(dims)) + COffset(f \div Head(dims), Tail(dims))

\* the target element type of the switch on PyArray_TYPE
ArrayTarget(typenum) ==
    IF typenum = "NPY_BOOL" THEN "NPY_BOOL"
    ELSE IF typenum \in {"NPY_BYTE", "NPY_UBYTE", "NPY_SHORT", "NPY_USHORT",
                          "NPY_INT", "NPY_LONG"} THEN "NPY_LONG"
    ELSE IF typenum \in {"NPY_FLOAT", "NPY_DOUBLE"} THEN "NPY_DOUBLE"
    ELSE "unsupported"

\* PyArray_CastToType(array, descr, NPY_ARRAY_FARRAY): a new array of the
\* target type whose memory is in column-major order
PyArray_CastToType(m, x, typenum) ==
    LET a == B(m, x).arr
        data == IF a.forder THEN a.data
                ELSE [f \in 1..Len(a.data) |-> a.data[COffset(f - 1, a.dims) + 1]]
    IN Alloc(m, NdArray(typenum, a.dims, data, TRUE))

RECURSIVE py_to_r(_, _, _), py_to_r_seq(_, _, _), py_to_r_dict(_, _, _, _, _)

\* the elements of a list or tuple, converted in order
py_to_r_seq(m, items, ubc) ==
    IF items = <<>> THEN [m |-> m, vals |-> <<>>, out |-> "ok", msg |-> NoMsg]
    ELSE LET r == py_to_r(m, Head(items), ubc)
         IN IF r.out # "ok"
            THEN [m |-> r.m, vals |-> <<>>, out |-> r.out, msg |-> r.msg]
            ELSE LET rest == py_to_r_seq(r.m, Tail(items), ubc)
                 IN [m |-> rest.m, vals |-> <<r.val>> \o rest.vals,
                     out |-> rest.out, msg |-> rest.msg]

\* while (PyDict_Next(...)) list[PyString_AsString(key)] = py_to_r(value);
\* for a key that is no string a std::string is made from NULL, which is
\* undefined
py_to_r_dict(m, keys, items, list, ubc) ==
    IF keys = <<>> THEN Ok(m, list)
    ELSE LET r == py_to_r(m, Head(items), ubc)
         IN IF r.out # "ok" THEN r
            ELSE LET k == PyString_AsString(r.m, Head(keys))
                 IN IF k.null
                    THEN IF ubc = "throw"
                         THEN Fault(k.m, HostMsg("std::logic_error"))
                         ELSE Crash(k.m)
                    ELSE py_to_r_dict(k.m, Tail(keys), Tail(items),
                                      SetByName(list, CStr(k.s), r.val), ubc)

py_to_r(m, x, ubc) ==
    IF py_is_none(x) THEN Ok(m, R_NilValue)
    ELSE LET scalarType == r_scalar_type(m, x)
         IN
    IF scalarType # "NILSXP" THEN
        IF scalarType = "LGLSXP" THEN Ok(m, wrap_bool(x = Py_True))
        ELSE IF scalarType = "INTSXP"
        THEN LET r == PyInt_AsLong(m, x) IN Ok(r.m, wrap_long(r.v))
        ELSE IF scalarType = "REALSXP"
        THEN Ok(m, wrap_double(PyFloat_AsDouble(m, x)))
        ELSE Ok(m, wrap_string(CStr(PyString_AsString(m, x).s)))
    ELSE IF PyList_Check(m, x) THEN
        LET items == B(m, x).items
            listType == scalar_list_type(m, x)
        IN IF listType = "REALSXP"
           THEN Ok(m, HV("REALSXP",
                         [i \in 1..Len(items) |-> PyFloat_AsDouble(m, items[i])]))
           ELSE IF listType = "INTSXP"
           THEN LET r == IntegerVectorOf(m, items) IN Ok(r.m, HV("INTSXP", r.v))
           ELSE IF listType = "LGLSXP"
           THEN Ok(m, HV("LGLSXP",
                         [i \in 1..Len(items) |->
                             IF items[i] = Py_True THEN 1 ELSE 0]))
           ELSE IF listType = "STRSXP"
           THEN Ok(m, HS([i \in 1..Len(items) |->
                             CStr(PyString_AsString(m, items[i]).s)]))
           ELSE LET els == py_to_r_seq(m, items, ubc)
                IN IF els.out # "ok"
                   THEN [m |-> els.m, val |-> R_NilValue, out |-> els.out,
                         msg |-> els.msg]
                   ELSE Ok(els.m, HL(els.vals))
    ELSE IF PyTuple_Check(m, x) THEN
        LET len == PyTuple_Size(m, x)
            els == py_to_r_seq(m, B(m, x).items, ubc)
            list == HL(els.vals)
        IN IF els.out # "ok"
           THEN [m |-> els.m, val |-> R_NilValue, out |-> els.out, msg |-> els.msg]
           ELSE IF PyObject_HasAttrString(els.m, x, "_fields") = 1
           THEN LET g == PyObject_GetAttrString(els.m, x, "_fields")
                    fieldsAttrPtr == PyObjectPtr(g.ref)
                IN IF PyTuple_Check(g.m, g.ref) /\ PyTuple_Size(g.m, g.ref) = len
                   THEN LET c == py_tuple_to_character(g.m, B(g.m, g.ref).items, ubc)
                        IN IF c.out = "ok"
                           THEN Ok(PyObjectPtr_dtor(c.m, fieldsAttrPtr),
                                   [list EXCEPT !.names = c.vec, !.hasNames = TRUE])
                           ELSE IF c.out = "fault"
                           THEN Fault(PyObjectPtr_dtor(c.m, fieldsAttrPtr),
                                      HostMsg("std::logic_error"))
                           ELSE Crash(c.m)
                   ELSE Ok(PyObjectPtr_dtor(g.m, fieldsAttrPtr), list)
           ELSE Ok(els.m, list)
    ELSE IF PyDict_Check(m, x) THEN
        py_to_r_dict(m, B(m, x).keys, B(m, x).items, HL(<<>>), ubc)
    ELSE IF PyArray_Check(m, x) THEN
        LET a == B(m, x).arr
            typenum == ArrayTarget(a.typenum)
        IN IF typenum = "unsupported"
           THEN Fault(m, HostMsg("Conversion from numpy array type is not supported"))
           ELSE LET cast == PyArray_CastToType(m, x, typenum)
                    ptrArray == PyObjectPtr(cast.ref)
                    pData == B(cast.m, cast.ref).arr.data
                    rArray ==
                        [HV(IF typenum = "NPY_BOOL" THEN "LGLSXP"
                            ELSE IF typenum = "NPY_LONG" THEN "INTSXP"
                            ELSE "REALSXP",
                            [i \in 1..Len(pData) |->
                                IF typenum = "NPY_LONG" THEN ToInt(pData[i])
                                ELSE pData[i]])
                         EXCEPT !.dim = a.dims, !.hasDim = TRUE]
                IN Ok(PyObjectPtr_dtor(cast.m, ptrArray), rArray)
    ELSE LET r == py_xptr(Py_IncRef(m, x), x) IN Ok(r.m, r.val)

----------------------------------------------------------------------------
(* The guest API that builds values *)

PyInt_FromLong(m, v) == Alloc(m, Scalar("int", v))
PyFloat_FromDouble(m, v) == Alloc(m, Scalar("float", v))
PyString_FromString(m, s) == Alloc(m, Str(CStr(s)))
\* True or False without a reference of its own
PyBool_FromLong_borrowed(m, v) ==
    [m |-> m, ref |-> IF v # 0 THEN Py_True ELSE Py_False]

\* a new reference to True or to False
PyBool_FromLong(m, v) ==
    LET b == IF v # 0 THEN Py_True ELSE Py_False
    IN [m |-> Py_IncRef(m, b), ref |-> b]

\* the slots of a new list or tuple
RECURSIVE Nulls(_)
Nulls(n) == IF n = 0 THEN <<>> ELSE Append(Nulls(n - 1), NULL)

PyList_New(m, n) == Alloc(m, List(Nulls(n)))
PyTuple_New(m, n) == Alloc(m, Tuple(Nulls(n), NULL))
PyDict_New(m) == Alloc(m, Dict(<<>>, <<>>))

\* PyList_SetItem and PyTuple_SetItem take over the reference to item, also
\* when they fail; they fail on an index out of range (and the tuple's on a
\* tuple that is shared)
PyList_SetItem(m, list, i, item) ==
    IF i < 0 \/ i >= Len(m.dyn[list].items)
    THEN [m |-> [Py_DecRef(m, item) EXCEPT !.e = ErrVal(<<8>>)], res |-> 0 - 1]
    ELSE [m |-> Py_DecRef([m EXCEPT !.dyn[list].items[i + 1] = item],
                          m.dyn[list].items[i + 1]),
          res |-> 0]

PyTuple_SetItem(m, tuple, i, item) ==
    IF m.rc[tuple] # 1 \/ i < 0 \/ i >= Len(m.dyn[tuple].items)
    THEN [m |-> [Py_DecRef(m, item) EXCEPT !.e = ErrVal(<<8>>)], res |-> 0 - 1]
    ELSE [m |-> Py_DecRef([m EXCEPT !.dyn[tuple].items[i + 1] = item],
                          m.dyn[tuple].items[i + 1]),
          res |-> 0]

RECURSIVE Hashable(_, _)
Hashable(m, o) ==
    LET b == B(m, o)
    IN /\ b.t \notin {"list", "dict", "ndarray"}
       /\ b.t = "tuple" =>
              \A i \in 1..Len(b.items) : Hashable(m, b.items[i])

\* equality of dictionary keys: numbers by value, strings by their bytes,
\* tuples by their items, anything else by identity
RECURSIVE KeyEq(_, _, _)
KeyEq(m, a, b) ==
    LET x == B(m, a)
        y == B(m, b)
        Num == {"bool", "int", "long", "float"}
    IN \/ a = b
       \/ x.t \in Num /\ y.t \in Num /\ x.ival = y.ival
       \/ x.t = "str" /\ y.t = "str" /\ x.sval = y.sval
       \/ /\ x.t = "tuple" /\ y.t = "tuple" /\ Len(x.items) = Len(y.items)
          /\ \A i \in 1..Len(x.items) : KeyEq(m, x.items[i], y.items[i])

\* PyDict_SetItem: the dictionary takes its own references to key and item;
\* an unhashable key gives -1 and sets TypeError
PyDict_SetItem(m, dict, key, item) ==
    IF ~Hashable(m, key)
    THEN [m |-> [m EXCEPT !.e = ErrVal(<<9>>)], res |-> 0 - 1]
    ELSE LET d == m.dyn[dict]
         IN IF \E i \in 1..Len(d.keys) : KeyEq(m, d.keys[i], key)
            THEN LET i == CHOOSE j \in 1..Len(d.keys) : KeyEq(m, d.keys[j], key)
                 IN [m |-> Py_DecRef(
                              [Py_IncRef(m, item) EXCEPT !.dyn[dict].items[i] = item],
                              d.items[i]),
                     res |-> 0]
            ELSE [m |-> [Py_IncRef(Py_IncRef(m, key), item) EXCEPT
                            !.dyn[dict].keys = Append(@, key),
                            !.dyn[dict].items = Append(@, item)],
                  res |-> 0]

\* PyDict_SetItemString: PyDict_SetItem under a key made from the C string
PyDict_SetItemString(m, dict, name, item) ==
    LET k == PyString_FromString(m, name)
        r == PyDict_SetItem(k.m, dict, k.ref, item)
    IN [m |-> Py_DecRef(r.m, k.ref), res |-> r.res]

\* byte j of the buffer of a host logical vector: each element is a 4-byte
\* little-endian int, 1, 0 or NA_LOGICAL (INT_MIN)
SizeofInt == 4
ByteOfLogical(v, j) ==
    LET e == v[(j \div SizeofInt) + 1]
        k == j % SizeofInt
    IN IF e = IntMin THEN (IF k = SizeofInt - 1 THEN 128 ELSE 0)
       ELSE IF k = 0 THEN e ELSE 0

\* PyArray_New(&PyArray_Type, nd, dims, typenum, NULL, data, 0,
\* NPY_ARRAY_FARRAY_RO, NULL): a column-major array of Prod(dims) elements of
\* typenum that reads the host buffer in place
PyArray_New(m, dims, typenum, type, v) ==
    LET n == Prod(dims)
        data == IF typenum = "NPY_BOOL"
                THEN [j \in 1..n |-> ByteOfLogical(v, j - 1)]
                ELSE [j \in 1..n |-> v[j]]
    IN Alloc(m, NdArray(typenum, dims, data, TRUE))

----------------------------------------------------------------------------
(* Host -> guest conversion *)

\* the result of r_to_py: a reference the caller owns, or a host fault
RP(m, ref) == [m |-> m, ref |-> ref, out |-> "ok", msg |-> NoMsg]
RPFault(m, msg) == [m |-> m, ref |-> NULL, out |-> "fault", msg |-> msg]
\* the exception f leaves r_to_py: the Handles in scope are destroyed, which
\* gives the heap unwound, unless the process has died
RPStop(f, unwound) ==
    [m |-> IF f.out = "crash" THEN f.m ELSE unwound, ref |-> NULL,
     out |-> f.out, msg |-> f.msg]

Inherits(x, what) == \E i \in 1..Len(x.cls) : x.cls[i] = what

\* the guest scalar of element value of a typed vector
ScalarOf(m, type, value) ==
    IF type = "INTSXP" THEN PyInt_FromLong(m, value)
    ELSE IF type = "REALSXP" THEN PyFloat_FromDouble(m, value)
    ELSE IF type = "LGLSXP" THEN PyBool_FromLong(m, value)
    ELSE PyString_FromString(m, value)

\* the loop that fills the list of a typed vector, from element i + 1 on;
\* list is the Handle that owns the list
RECURSIVE FillList(_, _, _, _, _)
FillList(m, list, type, v, i) ==
    IF i >= Len(v) THEN RP(m, PyObjectPtr_detach(list).ptr)
    ELSE LET s == ScalarOf(m, type, v[i + 1])
             r == PyList_SetItem(s.m, list.object_, i, s.ref)
         IN IF r.res # 0
            THEN LET f == py_fetch_error(r.m)
                 IN RPStop(f, PyObjectPtr_dtor(f.m, list))
            ELSE FillList(r.m, list, type, v, i + 1)

RECURSIVE r_to_py(_, _), FillDict(_, _, _, _), FillTuple(_, _, _, _)

\* the loop over a named generic list, from element i + 1 on
FillDict(m, dict, x, i) ==
    IF i >= Len(x.l) THEN RP(m, PyObjectPtr_detach(dict).ptr)
    ELSE LET e == r_to_py(m, x.l[i + 1])
         IN IF e.out # "ok" THEN RPStop(e, PyObjectPtr_dtor(e.m, dict))
            ELSE LET item == PyObjectPtr(e.ref)
                     r == PyDict_SetItemString(e.m, dict.object_, x.names[i + 1],
                                               item.object_)
                 IN IF r.res # 0
                    THEN LET f == py_fetch_error(r.m)
                         IN RPStop(f, PyObjectPtr_dtor(PyObjectPtr_dtor(f.m, item),
                                                      dict))
                    ELSE FillDict(PyObjectPtr_dtor(r.m, item), dict, x, i + 1)

\* the loop over an unnamed generic list, from element i + 1 on
FillTuple(m, tuple, x, i) ==
    IF i >= Len(x.l) THEN RP(m, PyObjectPtr_detach(tuple).ptr)
    ELSE LET e == r_to_py(m, x.l[i + 1])
         IN IF e.out # "ok" THEN RPStop(e, PyObjectPtr_dtor(e.m, tuple))
            ELSE LET r == PyTuple_SetItem(e.m, tuple.object_, i, e.ref)
                 IN IF r.res # 0
                    THEN LET f == py_fetch_error(r.m)
                         IN RPStop(f, PyObjectPtr_dtor(f.m, tuple))
                    ELSE FillTuple(r.m, tuple, x, i + 1)

r_to_py(m, x) ==
    IF x.type = "NILSXP" THEN RP(Py_IncRef(m, Py_None), Py_None)
    ELSE IF Inherits(x, "py_object") THEN RP(Py_IncRef(m, x.ptr), x.ptr)
    ELSE IF x.hasDim THEN
        IF x.type \notin {"INTSXP", "REALSXP", "LGLSXP"}
        THEN RPFault(m, HostMsg("Matrix type cannot be converted to python"))
        ELSE LET typenum == IF x.type = "INTSXP" THEN "NPY_INT"
                            ELSE IF x.type = "REALSXP" THEN "NPY_DOUBLE"
                            ELSE "NPY_BOOL"
                 matrix == PyArray_New(m, x.dim, typenum, x.type, x.v)
             IN RP(matrix.m, matrix.ref)
    ELSE IF x.type \in {"INTSXP", "REALSXP", "LGLSXP", "STRSXP"} THEN
        IF Len(Elts(x)) = 1
        THEN LET s == ScalarOf(m, x.type, Elts(x)[1]) IN RP(s.m, s.ref)
        ELSE LET l == PyList_New(m, Len(Elts(x)))
             IN FillList(l.m, PyObjectPtr(l.ref), x.type, Elts(x), 0)
    ELSE IF x.type = "VECSXP" THEN
        IF x.hasNames
        THEN LET d == PyDict_New(m) IN FillDict(d.m, PyObjectPtr(d.ref), x, 0)
        ELSE LET t == PyTuple_New(m, Len(x.l))
             IN FillTuple(t.m, PyObjectPtr(t.ref), x, 0)
    ELSE RPFault(m, HostMsg("Unable to convert R object to python type"))

----------------------------------------------------------------------------
(* The host-visible operations *)

\* the exception f leaves a host-visible operation
Stop(f, unwound) ==
    [m |-> IF f.out = "crash" THEN f.m ELSE unwound, val |-> R_NilValue,
     out |-> f.out, msg |-> f.msg]

\* what a guest callable does when called
PyObject_Call(m, x, pyArgs, pyKeywords) ==
    LET f == B(m, x)
        args == B(m, pyArgs).items
    IN IF ~PyCallable_Check(m, x)
       THEN [m |-> [m EXCEPT !.e = ErrVal(<<10>>)], ref |-> NULL]
       ELSE IF f.fn = "raise"
       THEN [m |-> [m EXCEPT !.e = ErrVal(f.sval)], ref |-> NULL]
       ELSE IF f.fn = "raise_noval"
       THEN [m |-> [m EXCEPT !.e = ErrNoVal], ref |-> NULL]
       ELSE IF f.fn = "raise_nostr"
       THEN [m |-> [m EXCEPT !.e = ErrNoStr], ref |-> NULL]
       ELSE IF f.fn = "id" /\ args # <<>>
       THEN [m |-> Py_IncRef(m, args[1]), ref |-> args[1]]
       ELSE [m |-> Py_IncRef(m, Py_None), ref |-> Py_None]

\* the loop over the unnamed arguments, from argument i + 1 on
RECURSIVE CallArgs(_, _, _, _), SetArg(_, _, _, _)
CallArgs(m, pyArgs, args, i) ==
    IF i >= Len(args.l) THEN [m |-> m, out |-> "ok", msg |-> NoMsg]
    ELSE SetArg(pyArgs, args, i, r_to_py(m, args.l[i + 1]))
\* the body of the loop, arg what r_to_py gave: the tuple takes over the
\* reference
SetArg(pyArgs, args, i, arg) ==
    IF arg.out # "ok" THEN [m |-> arg.m, out |-> arg.out, msg |-> arg.msg]
    ELSE LET r == PyTuple_SetItem(arg.m, pyArgs.object_, i, arg.ref)
         IN IF r.res # 0
            THEN LET f == py_fetch_error(r.m)
                 IN [m |-> f.m, out |-> f.out, msg |-> f.msg]
            ELSE CallArgs(r.m, pyArgs, args, i + 1)

\* the loop over the named arguments, from argument i + 1 on
RECURSIVE CallKeywords(_, _, _, _), SetKeyword(_, _, _, _)
CallKeywords(m, pyKeywords, keywords, i) ==
    IF i >= Len(keywords.l) THEN [m |-> m, out |-> "ok", msg |-> NoMsg]
    ELSE SetKeyword(pyKeywords, keywords, i, r_to_py(m, keywords.l[i + 1]))
\* the body of the loop, a what r_to_py gave: the Handle arg owns the
\* reference
SetKeyword(pyKeywords, keywords, i, a) ==
    IF a.out # "ok" THEN [m |-> a.m, out |-> a.out, msg |-> a.msg]
    ELSE LET arg == PyObjectPtr(a.ref)
             r == PyDict_SetItemString(a.m, pyKeywords.object_,
                                       keywords.names[i + 1], arg.object_)
         IN IF r.res # 0
            THEN LET f == py_fetch_error(r.m)
                 IN [m |-> IF f.out = "crash" THEN f.m
                            ELSE PyObjectPtr_dtor(f.m, arg),
                     out |-> f.out, msg |-> f.msg]
            ELSE CallKeywords(PyObjectPtr_dtor(r.m, arg), pyKeywords, keywords,
                              i + 1)

\* stage tells how far the call came: "args", "keywords", "call" (the callable
\* was invoked and gave no result), "result" (the result was being converted)
\* or "done"
CallResult(m, val, out, msg, stage) ==
    [m |-> m, val |-> val, out |-> out, msg |-> msg, stage |-> stage]

CallStop(f, unwound, stage) ==
    CallResult(IF f.out = "crash" THEN f.m ELSE unwound, R_NilValue, f.out,
               f.msg, stage)

\* return py_to_r(res), r what py_to_r gave
py_call_return(pyArgs, pyKeywords, res, r) ==
    CallResult(IF r.out = "crash" THEN r.m
               ELSE PyObjectPtr_dtor(PyObjectPtr_dtor(
                        PyObjectPtr_dtor(r.m, res), pyKeywords), pyArgs),
               r.val, r.out, r.msg, IF r.out = "ok" THEN "done" ELSE "result")

\* the call of the function, k what the loop over the named arguments gave
py_call_invoke(x, ubc, pyArgs, pyKeywords, k) ==
    IF k.out # "ok"
    THEN CallStop(k, PyObjectPtr_dtor(PyObjectPtr_dtor(k.m, pyKeywords), pyArgs),
                  "keywords")
    ELSE LET c == PyObject_Call(k.m, x, pyArgs.object_, pyKeywords.object_)
             res == PyObjectPtr(c.ref)
         IN IF PyObjectPtr_is_null(res)
            THEN LET f == py_fetch_error(c.m)
                 IN CallStop(f, PyObjectPtr_dtor(PyObjectPtr_dtor(
                                    PyObjectPtr_dtor(f.m, res), pyKeywords), pyArgs),
                             "call")
            ELSE py_call_return(pyArgs, pyKeywords, res,
                                py_to_r(c.m, res.object_, ubc))

\* the named arguments, a what the loop over the unnamed arguments gave
py_call_keywords(x, keywords, ubc, pyArgs, a) ==
    IF a.out # "ok" THEN CallStop(a, PyObjectPtr_dtor(a.m, pyArgs), "args")
    ELSE LET d == PyDict_New(a.m)
             pyKeywords == PyObjectPtr(d.ref)
         IN py_call_invoke(x, ubc, pyArgs, pyKeywords,
                           IF Len(keywords.l) > 0
                           THEN CallKeywords(d.m, pyKeywords, keywords, 0)
                           ELSE [m |-> d.m, out |-> "ok", msg |-> NoMsg])

py_call(m, x, args, keywords, ubc) ==
    LET t == PyTuple_New(m, Len(args.l))
        pyArgs == PyObjectPtr(t.ref)
    IN py_call_keywords(x, keywords, ubc, pyArgs, CallArgs(t.m, pyArgs, args, 0))

\* PyImport_ImportModule: a new reference to the module, or NULL with
\* ImportError set
PyImport_ImportModule(m, module) ==
    IF module = "__main__"
    THEN [m |-> Py_IncRef(m, MainModule), ref |-> MainModule]
    ELSE [m |-> [m EXCEPT !.e = ErrVal(<<11>>)], ref |-> NULL]

py_import(m, module) ==
    LET pModule == PyImport_ImportModule(m, module)
    IN IF pModule.ref = NULL
       THEN LET f == py_fetch_error(pModule.m) IN Stop(f, f.m)
       ELSE LET w == py_xptr(pModule.m, pModule.ref) IN Ok(w.m, w.val)

py_get_attr(m, x, name) ==
    LET attr == PyObject_GetAttrString(m, x, name)
    IN IF attr.ref = NULL
       THEN LET f == py_fetch_error(attr.m) IN Stop(f, f.m)
       ELSE LET w == py_xptr(attr.m, attr.ref) IN Ok(w.m, w.val)

\* the kind of one attribute
AttributeType(m, attr) ==
    IF PyCallable_Check(m, attr) THEN 6
    ELSE IF PyList_Check(m, attr) \/ PyTuple_Check(m, attr) \/ PyDict_Check(m, attr)
    THEN 4
    ELSE IF PyArray_Check(m, attr) THEN 2
    ELSE IF \/ PyBool_Check(m, attr) \/ PyInt_Check(m, attr) \/ PyLong_Check(m, attr)
            \/ PyFloat_Check(m, attr) \/ PyString_Check(m, attr)
    THEN 1
    ELSE 4

\* every attribute is fetched as a wrapper of its own
RECURSIVE py_get_attribute_types(_, _, _)
py_get_attribute_types(m, x, attributes) ==
    IF attributes = <<>> THEN Ok(m, HV("INTSXP", <<>>))
    ELSE LET a == py_get_attr(m, x, Head(attributes))
         IN IF a.out # "ok" THEN a
            ELSE LET rest == py_get_attribute_types(a.m, x, Tail(attributes))
                 IN IF rest.out # "ok" THEN rest
                    ELSE Ok(rest.m, HV("INTSXP",
                                       <<AttributeType(a.m, a.val.ptr)>> \o rest.val.v))

\* the loop of py_dict, from key i + 1 on; dict is a plain pointer
RECURSIVE DictItems(_, _, _, _, _), DictKey(_, _, _, _, _), DictItem(_, _, _, _, _, _)
DictItems(m, dict, keys, items, i) ==
    IF i >= Len(keys.l) THEN [m |-> m, out |-> "ok", msg |-> NoMsg]
    ELSE DictKey(dict, keys, items, i, r_to_py(m, keys.l[i + 1]))
\* PyObjectPtr key(r_to_py(keys.at(i))), k what r_to_py gave; items.at(i)
\* checks its index
DictKey(dict, keys, items, i, k) ==
    IF k.out # "ok" THEN [m |-> k.m, out |-> k.out, msg |-> k.msg]
    ELSE IF i >= Len(items.l)
    THEN [m |-> PyObjectPtr_dtor(k.m, PyObjectPtr(k.ref)), out |-> "fault",
          msg |-> HostMsg("index out of bounds")]
    ELSE DictItem(dict, keys, items, i, PyObjectPtr(k.ref),
                  r_to_py(k.m, items.l[i + 1]))
\* PyObjectPtr item(r_to_py(items.at(i))), v what r_to_py gave, and
\* PyDict_SetItem, whose result is dropped
DictItem(dict, keys, items, i, key, v) ==
    IF v.out # "ok"
    THEN [m |-> IF v.out = "crash" THEN v.m ELSE PyObjectPtr_dtor(v.m, key),
          out |-> v.out, msg |-> v.msg]
    ELSE LET item == PyObjectPtr(v.ref)
             r == PyDict_SetItem(v.m, dict, key.object_, item.object_)
         IN DictItems(PyObjectPtr_dtor(PyObjectPtr_dtor(r.m, item), key),
                      dict, keys, items, i + 1)

\* return py_xptr(dict), r what the loop gave
py_dict_return(dict, r) ==
    IF r.out # "ok" THEN Stop(r, r.m)
    ELSE LET w == py_xptr(r.m, dict) IN Ok(w.m, w.val)

py_dict(m, keys, items) ==
    LET dict == PyDict_New(m)
    IN py_dict_return(dict.ref, DictItems(dict.m, dict.ref, keys, items, 0))

\* PyRun_StringFlags on the dictionary of __main__: a new reference to None,
\* or NULL with the error of the code set
PyRun_StringFlags(m, code) ==
    IF code = "pass" THEN [m |-> Py_IncRef(m, Py_None), ref |-> Py_None]
    ELSE IF code = "raise" THEN [m |-> [m EXCEPT !.e = ErrVal(<<12>>)], ref |-> NULL]
    ELSE [m |-> [m EXCEPT !.e = ErrNoStr], ref |-> NULL]

py_run_string(m, code) ==
    LET r == PyRun_StringFlags(m, code)
        res == PyObjectPtr(r.ref)
    IN IF PyObjectPtr_is_null(res)
       THEN LET f == py_fetch_error(r.m) IN Stop(f, PyObjectPtr_dtor(f.m, res))
       ELSE Ok(PyObjectPtr_dtor(r.m, res), R_NilValue)

\* the finalizer of an opaque wrapper, run once by the host collector: it
\* releases the reference the wrapper owns
PyObjectXPtr_finalizer(m, o) == Py_DecRef([m EXCEPT !.w[o] = @ - 1], o)

----------------------------------------------------------------------------
(* The values the host passes in *)

RInt(v) == HV("INTSXP", v)
RReal(v) == HV("REALSXP", v)
RLgl(v) == HV("LGLSXP", v)
RStr(s) == HS(s)
RList(l) == HL(l)
RNamed(l, names) == [HL(l) EXCEPT !.names = names, !.hasNames = TRUE]
RArray(x, dims) == [x EXCEPT !.dim = dims, !.hasDim = TRUE]
\* a host function: a value r_to_py has no rule for
RClosure == HV("CLOSXP", <<>>)
\* the wrapper host code holds for guest object o
RWrapper(m, o) == XPtr(o, <<B(m, o).t, "py_object">>)

\* the number of guest objects the conversion of x may create
RECURSIVE Cost(_), CostAll(_, _)
Cost(x) ==
    IF x.type = "NILSXP" \/ Inherits(x, "py_object") THEN 0
    ELSE IF x.hasDim THEN 1
    ELSE IF x.type \in {"INTSXP", "REALSXP", "LGLSXP", "STRSXP"}
    THEN IF Len(Elts(x)) = 1 THEN 1 ELSE 1 + Len(Elts(x))
    ELSE IF x.type = "VECSXP" THEN 1 + CostAll(x.l, IF x.hasNames THEN 1 ELSE 0)
    ELSE 0
CostAll(s, extra) ==
    IF s = <<>> THEN 0 ELSE Cost(Head(s)) + extra + CostAll(Tail(s), extra)

----------------------------------------------------------------------------
(* State *)

M == [rc |-> rc, dyn |-> dyn, w |-> wraps, e |-> err]

Commit(m) == rc' = m.rc /\ dyn' = m.dyn /\ wraps' = m.w /\ err' = m.e

Room(n) == Cardinality(FreeIds(M)) >= n

RECURSIVE SumOver(_, _)
SumOver(f, S) ==
    IF S = {} THEN 0
    ELSE LET o == CHOOSE p \in S : TRUE IN f[o] + SumOver(f, S \ {o})

NWraps(w) == SumOver(w, ObjIds)

\* the objects host code holds a wrapper of
Wrapped == {o \in ObjIds : wraps[o] > 0}

\* what the last operation was given and what it gave
L(op, out, msg) ==
    [op |-> op, out |-> out, msg |-> msg, val |-> R_NilValue, x |-> NULL,
     hx |-> R_NilValue, ref |-> NULL, stage |-> "", fn |-> "", delta |-> 0]

\* the process is running
Alive == last.out # "crash"

\* the bookkeeping of an operation that ended with outcome out
Count(out, callableRaised) ==
    /\ faults' = IF out # "ok" /\ faults < MaxFault THEN faults + 1 ELSE faults
    /\ raised' = IF callableRaised /\ raised < MaxRaised THEN raised + 1 ELSE raised

HandleNone ==
    [state |-> "none", object_ |-> NULL, acquired |-> NULL, detached |-> FALSE,
     decs |-> 0]

Init ==
    /\ rc = Rc0
    /\ dyn = Dyn0
    /\ wraps = [o \in ObjIds |-> 0]
    /\ err = NoErr
    /\ held = NULL
    /\ last = L("init", "ok", NoMsg)
    /\ faults = 0
    /\ raised = 0
    /\ hnd = [i \in 1..MaxHnd |-> HandleNone]

----------------------------------------------------------------------------
(* The host-visible operations as steps *)

ArgSamples ==
    <<RList(<<>>), RList(<<RInt(<<1>>)>>),
      RList(<<RList(<<RStr(<<<<1>>>>), RClosure>>)>>),
      RList(<<R_NilValue, RArray(RInt(<<1, 2>>), <<2, 1>>)>>)>>

KeywordSamples ==
    <<RList(<<>>), RNamed(<<RInt(<<1>>)>>, <<<<1>>>>),
      RNamed(<<RInt(<<1>>), RClosure>>, <<<<1>>, <<2>>>>)>>

\* parallel keys and items
DictSamples ==
    <<<<RList(<<RStr(<<<<1>>>>)>>), RList(<<RInt(<<1>>)>>)>>,
      <<RList(<<RInt(<<1, 2>>)>>), RList(<<RInt(<<1>>)>>)>>,
      <<RList(<<RInt(<<1>>)>>), RList(<<RClosure>>)>>,
      <<RList(<<RInt(<<1>>), RReal(<<1>>)>>), RList(<<R_NilValue>>)>> >>

\* the operation op returns r to the host
Return(op, r) ==
    /\ NWraps(r.m.w) <= MaxWrap
    /\ Commit(r.m)
    /\ last' = L(op, r.out, r.msg)
    /\ Count(r.out, FALSE)
    /\ UNCHANGED <<held, hnd>>

\* py_call of the callable fn returns r to the host
ReturnCall(fn, callable, r) ==
    /\ NWraps(r.m.w) <= MaxWrap
    /\ Commit(r.m)
    /\ last' = [L("py_call", r.out, r.msg) EXCEPT !.stage = r.stage, !.fn = fn]
    /\ Count(r.out, r.stage = "call" /\ callable)
    /\ UNCHANGED <<held, hnd>>

Do_py_import(module) ==
    /\ Alive
    /\ Return("py_import", py_import(M, module))

Do_py_get_attr(x, name) ==
    /\ Alive
    /\ Return("py_get_attr", py_get_attr(M, x, name))

Do_py_get_attribute_types(x, attributes) ==
    /\ Alive
    /\ Return("py_get_attribute_types", py_get_attribute_types(M, x, attributes))

Do_py_to_r(x, ubc) ==
    /\ Alive
    /\ Room(1)
    /\ Return("py_to_r", py_to_r(M, x, ubc))

Do_py_call(x, args, keywords, ubc) ==
    /\ Alive
    /\ Room(Cost(args) + Cost(keywords) + 1)
    /\ ReturnCall(B(M, x).fn, PyCallable_Check(M, x),
                  py_call(M, x, args, keywords, ubc))

Do_py_dict(keys, items) ==
    /\ Alive
    /\ Room(Cost(keys) + Cost(items) + 1)
    /\ Return("py_dict", py_dict(M, keys, items))

Do_py_run_string(code) ==
    /\ Alive
    /\ Return("py_run_string", py_run_string(M, code))

\* the host collector finalizes a wrapper
Finalize(o) ==
    /\ Alive
    /\ wraps[o] > 0
    /\ Commit(PyObjectXPtr_finalizer(M, o))
    /\ last' = [L("finalize", "gc", NoMsg) EXCEPT !.delta = rc'[o] - rc[o]]
    /\ UNCHANGED <<held, hnd, faults, raised>>

\* the arguments of a call: a sample, or a wrapper host code holds
CallArgSamples ==
    {ArgSamples[a] : a \in DOMAIN ArgSamples}
        \cup {RList(<<RWrapper(M, w)>>) : w \in Wrapped}

\* the keys and items of a dictionary: a sample, or a wrapper host code holds
\* under a string key
DictArgSamples ==
    {DictSamples[i] : i \in DOMAIN DictSamples}
        \cup {<<RList(<<RStr(<<<<1>>>>)>>), RList(<<RWrapper(M, w)>>)>> : w \in Wrapped}

Next ==
    \/ \E module \in {"__main__", "nosuch"} : Do_py_import(module)
    \/ \E x \in Wrapped :
          \E name \in {"f_id", "f_raise", "f_raise_noval", "f_raise_nostr",
                       "lhuge", "nosuch"} : Do_py_get_attr(x, name)
    \/ \E x \in Wrapped, a \in {<<"f_id">>, <<"nosuch">>} :
          Do_py_get_attribute_types(x, a)
    \/ \E x \in Wrapped, ubc \in UBOutcomes : Do_py_to_r(x, ubc)
    \/ \E x \in Wrapped, k \in DOMAIN KeywordSamples, ubc \in UBOutcomes :
          \E args \in CallArgSamples : Do_py_call(x, args, KeywordSamples[k], ubc)
    \/ \E d \in DictArgSamples : Do_py_dict(d[1], d[2])
    \/ \E code \in {"pass", "raise", "raise_nostr"} : Do_py_run_string(code)
    \/ \E o \in ObjIds : Finalize(o)

Spec == Init /\ [][Next]_vars

----------------------------------------------------------------------------
(* Reference counts across the host-visible operations *)

\* the number of slots of guest containers created since start-up that hold o
RECURSIVE DynInRefs(_, _, _)
DynInRefs(d, o, c) ==
    IF c <= NStatic THEN 0
    ELSE SeqCount(Children(d[c]), o) + DynInRefs(d, o, c - 1)

LiveContainersHolding(o) == DynInRefs(dyn, o, NStatic + MaxDyn)

\* C1: as long as every operation has returned normally, the reference count
\* of every guest object exceeds its value at start-up by exactly the number
\* of live opaque wrappers that own it plus the number of slots of live guest
\* containers that hold it; and once every wrapper has been finalized, every
\* reference count is back at its value at start-up
C1_RefcountNeutrality ==
    faults = 0 =>
        /\ \A o \in ObjIds : rc[o] = Rc0[o] + wraps[o] + LiveContainersHolding(o)
        /\ NWraps(wraps) = 0 => rc = Rc0

\* py_dict has returned normally a dictionary that holds a guest object which
\* a wrapper owns as well
C1_Witness ==
    /\ faults = 0
    /\ last.op = "py_dict"
    /\ last.out = "ok"
    /\ \E o \in 1..NStatic :
          wraps[o] = 1 /\ LiveContainersHolding(o) = 1 /\ rc[o] = Rc0[o] + 2

\* C2: an operation that builds a guest container (py_call, py_dict) and
\* ends in a host fault leaves every guest reference count as it was before
\* the operation started
C2_NoLeakOnFailure ==
    [][(last'.op \in {"py_call", "py_dict"} /\ last'.out = "fault") => rc' = rc]_vars

\* C3: no operation returns normally to the host while the guest error
\* indicator is set
C3_NoSwallowedErrors ==
    (last.op \notin {"init", "finalize"} /\ last.out = "ok") => ~err.set

\* the string form of the exception value the callable fn raises
RaisedMsg(fn) ==
    IF fn = "raise" THEN GuestMsg(Dyn0[Id("f_raise")].sval)
    ELSE HostMsg("<unknown error>")

\* C4: a py_call whose callable raises ends with a host fault whose message
\* is the string form of the exception value ("<unknown error>" without a
\* value) and with the error indicator clear; a py_call of a callable that
\* does not raise never fails in the invocation, however many raising calls
\* came before
C4_ErrorPassthrough ==
    /\ (/\ last.op = "py_call"
        /\ last.fn \in {"raise", "raise_noval", "raise_nostr"}
        /\ last.stage \notin {"args", "keywords"})
           => /\ last.stage = "call"
              /\ last.out = "fault"
              /\ last.msg = RaisedMsg(last.fn)
              /\ ~err.set
    /\ (last.op = "py_call" /\ last.fn \in {"id", "none"}) => last.stage # "call"

----------------------------------------------------------------------------
(* The two conversions as steps *)

\* the guest values py_to_r is given: the objects that exist at start-up, with
\* one callable among them
GuestSamples == {o \in 1..NStatic : Dyn0[o].t # "function" \/ Dyn0[o].fn = "id"}

\* the host values r_to_py is given
HostSamples ==
    <<R_NilValue, RLgl(<<1>>), RLgl(<<0>>), RInt(<<1>>), RInt(<<IntMin + 1>>),
      RReal(<<2>>), RStr(<<<<1, 2>>>>), RInt(<<>>), RStr(<<>>), RInt(<<1, 2>>),
      RStr(<<<<1>>, <<2>>>>), RLgl(<<1, 0>>), RReal(<<1, 2>>), RList(<<>>),
      RList(<<RInt(<<1>>), RStr(<<<<1>>>>)>>),
      RNamed(<<RInt(<<1>>), RList(<<R_NilValue>>)>>, <<<<1>>, <<2>>>>),
      RNamed(<<RInt(<<1>>), RClosure>>, <<<<1>>, <<2>>>>),
      RList(<<RReal(<<1>>), RClosure>>), RArray(RInt(<<1, 2>>), <<2, 1>>),
      RArray(RStr(<<<<1>>>>), <<1>>), RClosure>>

\* py_to_r(x) returns r
ConvReturn(op, x, hx, r) ==
    /\ NWraps(r.m.w) <= MaxWrap
    /\ Commit(r.m)
    /\ last' = [L(op, r.out, r.msg) EXCEPT
                   !.x = x, !.hx = hx, !.val = r.val, !.delta = r.m.rc[x] - rc[x]]
    /\ Count(r.out, FALSE)
    /\ UNCHANGED <<held, raised, hnd>>

\* r_to_py(hx) returns r: the caller holds the reference
ConvHold(hx, r) ==
    /\ Commit(r.m)
    /\ held' = r.ref
    /\ last' = [L("r_to_py", r.out, r.msg) EXCEPT
                   !.hx = hx, !.ref = r.ref,
                   !.delta = IF r.ref = NULL THEN 0 ELSE r.m.rc[r.ref] - rc[r.ref]]
    /\ Count(r.out, FALSE)
    /\ UNCHANGED <<raised, hnd>>

\* SEXP py_to_r(PyObject* x) on a guest value
Conv_py_to_r(x, ubc) ==
    /\ Alive
    /\ held = NULL
    /\ Room(1)
    /\ ConvReturn("py_to_r", x, R_NilValue, py_to_r(M, x, ubc))

\* PyObject* r_to_py(RObject x) on a host value
Conv_r_to_py(hx) ==
    /\ Alive
    /\ held = NULL
    /\ Room(Cost(hx))
    /\ ConvHold(hx, r_to_py(M, hx))

\* py_to_r on the reference r_to_py has just returned
Conv_round_trip(ubc) ==
    /\ Alive
    /\ held # NULL
    /\ last.op = "r_to_py"
    /\ Room(1)
    /\ ConvReturn("round_trip", held, last.hx, py_to_r(M, held, ubc))

\* the caller releases the reference r_to_py returned
Conv_release ==
    /\ Alive
    /\ held # NULL
    /\ Commit(Py_DecRef(M, held))
    /\ held' = NULL
    /\ last' = L("release", "ok", NoMsg)
    /\ UNCHANGED <<faults, raised, hnd>>

NextConv ==
    \/ \E x \in GuestSamples, ubc \in UBOutcomes : Conv_py_to_r(x, ubc)
    \/ \E i \in DOMAIN HostSamples : Conv_r_to_py(HostSamples[i])
    \/ \E w \in Wrapped : Conv_r_to_py(RWrapper(M, w))
    \/ \E ubc \in UBOutcomes : Conv_round_trip(ubc)
    \/ Conv_release
    \/ \E o \in ObjIds : Finalize(o)

SpecConv == Init /\ [][NextConv]_vars

----------------------------------------------------------------------------
(* The life cycle of a Handle, and of an opaque wrapper *)

\* PyObjectPtr p(object), object what the guest API returned
H_attach(i, g) ==
    /\ Commit(g.m)
    /\ hnd' = [hnd EXCEPT ![i] =
                  [state |-> "live", object_ |-> PyObjectPtr(g.ref).object_,
                   acquired |-> g.ref, detached |-> FALSE, decs |-> 0]]
    /\ UNCHANGED <<held, last, faults, raised>>

\* a Handle on an attribute of __main__; PyObject_GetAttrString gives NULL
\* for a name that does not exist
H_new(i, name) ==
    /\ Alive
    /\ hnd[i].state = "none"
    /\ H_attach(i, PyObject_GetAttrString(M, MainModule, name))

\* a Handle on a new tuple
H_new_tuple(i) ==
    /\ Alive
    /\ hnd[i].state = "none"
    /\ Room(1)
    /\ H_attach(i, PyTuple_New(M, 0))

\* p.detach(): the caller takes the reference
H_detach(i) ==
    /\ Alive
    /\ hnd[i].state = "live"
    /\ held = NULL
    /\ held' = PyObjectPtr_detach(hnd[i]).ptr
    /\ hnd' = [hnd EXCEPT ![i].object_ = PyObjectPtr_detach(hnd[i]).h.object_,
                          ![i].detached = TRUE]
    /\ UNCHANGED <<rc, dyn, wraps, err, last, faults, raised>>

\* the Handle leaves its scope; decs is the number of decrements that made
H_destroy(i) ==
    /\ Alive
    /\ hnd[i].state = "live"
    /\ Commit(PyObjectPtr_dtor(M, hnd[i]))
    /\ hnd' = [hnd EXCEPT ![i].state = "dead", ![i].decs = SumOver(rc, ObjIds) - SumOver(rc', ObjIds)]
    /\ UNCHANGED <<held, last, faults, raised>>

NextHandle ==
    \/ \E i \in 1..MaxHnd, name \in {"obj", "nosuch"} : H_new(i, name)
    \/ \E i \in 1..MaxHnd : H_new_tuple(i)
    \/ \E i \in 1..MaxHnd : H_detach(i)
    \/ \E i \in 1..MaxHnd : H_destroy(i)
    \/ Conv_release
    \/ Do_py_import("__main__")
    \/ \E o \in ObjIds : Finalize(o)

SpecHandle == Init /\ [][NextHandle]_vars

\* the number of live Handles that hold o
RECURSIVE HandlesHolding(_, _)
HandlesHolding(o, i) ==
    IF i = 0 THEN 0
    ELSE (IF hnd[i].state = "live" /\ hnd[i].object_ = o THEN 1 ELSE 0)
         + HandlesHolding(o, i - 1)

\* C5: a destroyed Handle has decremented a reference count exactly once if
\* it held a reference that was not detached, and not at all otherwise; a
\* detached Handle holds NULL; the finalizer of a wrapper decrements the
\* count of the wrapped object exactly once; and every reference count is
\* its start-up value plus one per owner: live wrapper, live Handle, caller
C5_SingleRelease ==
    /\ \A i \in 1..MaxHnd :
          /\ hnd[i].state = "dead" =>
                hnd[i].decs = IF hnd[i].acquired # NULL /\ ~hnd[i].detached
                              THEN 1 ELSE 0
          /\ hnd[i].detached => hnd[i].object_ = NULL
    /\ last.op = "finalize" => last.delta = 0 - 1
    /\ \A o \in ObjIds :
          rc[o] = Rc0[o] + wraps[o] + LiveContainersHolding(o)
                  + HandlesHolding(o, MaxHnd) + (IF held = o THEN 1 ELSE 0)

\* one Handle was destroyed holding its reference, the other after detach()
C5_Witness ==
    /\ \E i \in 1..MaxHnd :
          /\ hnd[i].state = "dead" /\ hnd[i].acquired # NULL
          /\ hnd[i].detached /\ hnd[i].decs = 0
    /\ \E i \in 1..MaxHnd :
          /\ hnd[i].state = "dead" /\ hnd[i].acquired # NULL
          /\ ~hnd[i].detached /\ hnd[i].decs = 1
    /\ last.op = "finalize"

----------------------------------------------------------------------------
(* The conversion rules as the specification states them *)

ScalarTypes == {"bool", "int", "long", "float", "str"}
VectorTypes == {"LGLSXP", "INTSXP", "REALSXP", "STRSXP"}

\* the host kind that corresponds to a guest scalar type
HostKind(t) ==
    CASE t = "bool" -> "LGLSXP"
      [] t \in {"int", "long"} -> "INTSXP"
      [] t = "float" -> "REALSXP"
      [] t = "str" -> "STRSXP"
      [] OTHER -> "none"

\* the guest type that corresponds to the kind of a host typed vector
GuestKind(type) ==
    CASE type = "LGLSXP" -> "bool"
      [] type = "INTSXP" -> "int"
      [] type = "REALSXP" -> "float"
      [] type = "STRSXP" -> "str"
      [] OTHER -> "none"

IsScalarOfKind(val, kind) ==
    val.type = kind /\ Len(Elts(val)) = 1 /\ ~val.hasDim /\ ~val.hasNames

\* the interpreter with the heap of now, no error set and no wrapper made
Fresh == [rc |-> Rc0, dyn |-> dyn, w |-> [o \in ObjIds |-> 0], e |-> NoErr]

\* the guest values the classification is stated for: every one but a
\* mapping with a key that is not a string and an array of an element type
\* that has no host kind
Classified(b) ==
    /\ b.t = "dict" => \A i \in 1..Len(b.keys) : dyn[b.keys[i]].t = "str"
    /\ b.t = "ndarray" => ArrayTarget(b.arr.typenum) # "unsupported"

\* the result val of py_to_r on x, a value with body b, is what the first
\* matching rule gives
FirstRule(x, b, val, delta) ==
    IF x = Py_None THEN val = R_NilValue
    ELSE IF b.t \in ScalarTypes THEN IsScalarOfKind(val, HostKind(b.t))
    ELSE IF b.t = "list" THEN val.type \in VectorTypes \cup {"VECSXP"} /\ ~val.hasDim
    ELSE IF b.t = "tuple" THEN val.type = "VECSXP"
    ELSE IF b.t = "dict"
    THEN /\ val.type = "VECSXP"
         /\ val.hasNames <=> Len(b.keys) > 0
         /\ Len(val.l) = Len(b.keys)
         /\ \A i \in 1..Len(b.keys) : val.names[i] = dyn[b.keys[i]].sval
    ELSE IF b.t = "ndarray" THEN val.hasDim /\ val.dim = b.arr.dims
    ELSE val = XPtr(x, <<b.t, "py_object">>) /\ delta = 1

\* C6: py_to_r returns normally with what the first matching rule gives:
\* host null for None, a host scalar of the corresponding kind for a scalar,
\* a vector or generic list for a list, a generic list for a tuple, a generic
\* list named by the keys for a mapping, a host array for an n-d array, and
\* for anything else a wrapper of the value after one increment of its count;
\* and the result is the one py_to_r gives with no earlier operation
C6_ClassificationPrecedence ==
    (last.op = "py_to_r" /\ Classified(dyn[last.x])) =>
        /\ last.out = "ok"
        /\ FirstRule(last.x, dyn[last.x], last.val, last.delta)
        /\ \E ubc \in UBOutcomes : py_to_r(Fresh, last.x, ubc).val = last.val

\* C7: py_to_r of a guest list of length N is a host typed vector of length
\* N and kind K, element i the conversion of list element i, when N >= 1 and
\* every element is a scalar of kind K; and a host generic list of the
\* converted elements otherwise
C7_HomogeneousLists ==
    (last.op = "py_to_r" /\ dyn[last.x].t = "list") =>
        LET items == dyn[last.x].items
            N == Len(items)
            kinds == {HostKind(dyn[items[i]].t) : i \in 1..N}
            conv(i) == py_to_r(Fresh, items[i], "crash").val
        IN /\ last.out = "ok"
           /\ ~last.val.hasDim
           /\ Len(Elts(last.val)) = N
           /\ IF N >= 1 /\ \E K \in VectorTypes : kinds = {K}
              THEN /\ {last.val.type} = kinds
                   /\ \A i \in 1..N : <<Elts(last.val)[i]>> = Elts(conv(i))
              ELSE /\ last.val.type = "VECSXP"
                   /\ \A i \in 1..N : last.val.l[i] = conv(i)

\* C8: py_to_r of a guest tuple of length n is a host generic list of the n
\* converted elements, which has names if and only if _fields is a tuple of
\* n strings, and then name i is _fields[i]
C8_NamedTuples ==
    (last.op = "py_to_r" /\ dyn[last.x].t = "tuple") =>
        LET b == dyn[last.x]
            n == Len(b.items)
            named == /\ b.fields # NULL
                     /\ dyn[b.fields].t = "tuple"
                     /\ Len(dyn[b.fields].items) = n
                     /\ \A i \in 1..n : dyn[dyn[b.fields].items[i]].t = "str"
        IN /\ last.out = "ok"
           /\ last.val.type = "VECSXP"
           /\ Len(last.val.l) = n
           /\ \A i \in 1..n : last.val.l[i] = py_to_r(Fresh, b.items[i], "crash").val
           /\ last.val.hasNames <=> named
           /\ named => \A i \in 1..n :
                          last.val.names[i] = dyn[dyn[b.fields].items[i]].sval

\* element i of the typed vector x, as a guest scalar
IsGuestScalar(d, o, x, i) ==
    /\ o # NULL
    /\ d[o].t = GuestKind(x.type)
    /\ IF x.type = "STRSXP" THEN d[o].sval = x.s[i]
       ELSE IF x.type = "LGLSXP" THEN d[o].ival = (IF x.v[i] # 0 THEN 1 ELSE 0)
       ELSE d[o].ival = x.v[i]

\* the rules give a fault for x or for a value in x; emptyIsList says that a
\* typed vector of length 0 has the rule of the longer ones
RECURSIVE NoRule(_, _)
NoRule(x, emptyIsList) ==
    IF x.type = "NILSXP" \/ Inherits(x, "py_object") THEN FALSE
    ELSE IF x.hasDim THEN x.type \notin {"INTSXP", "REALSXP", "LGLSXP"}
    ELSE IF x.type \in VectorTypes THEN Len(Elts(x)) = 0 /\ ~emptyIsList
    ELSE IF x.type = "VECSXP"
    THEN \E i \in 1..Len(x.l) : NoRule(x.l[i], emptyIsList)
    ELSE TRUE

\* the guest object o is what the rules give for the host value x
RECURSIVE IsGuestOf(_, _, _)
IsGuestOf(d, o, x) ==
    IF o = NULL THEN FALSE
    ELSE IF x.type = "NILSXP" THEN o = Py_None
    ELSE IF Inherits(x, "py_object") THEN o = x.ptr
    ELSE IF x.hasDim THEN d[o].t = "ndarray" /\ d[o].arr.dims = x.dim
    ELSE IF x.type \in VectorTypes
    THEN IF Len(Elts(x)) = 1 THEN IsGuestScalar(d, o, x, 1)
         ELSE /\ d[o].t = "list"
              /\ Len(d[o].items) = Len(Elts(x))
              /\ \A i \in 1..Len(Elts(x)) : IsGuestScalar(d, d[o].items[i], x, i)
    ELSE IF x.type = "VECSXP"
    THEN IF x.hasNames
         THEN /\ d[o].t = "dict"
              /\ Len(d[o].keys) = Len(x.l)
              /\ \A i \in 1..Len(x.l) :
                    /\ d[d[o].keys[i]].t = "str"
                    /\ d[d[o].keys[i]].sval = x.names[i]
                    /\ IsGuestOf(d, d[o].items[i], x.l[i])
         ELSE /\ d[o].t = "tuple"
              /\ Len(d[o].items) = Len(x.l)
              /\ \A i \in 1..Len(x.l) : IsGuestOf(d, d[o].items[i], x.l[i])
    ELSE FALSE

\* r_to_py has followed the rules: a fault and nothing kept where they give
\* a fault, and otherwise the guest value they give, with one reference
\* that the caller owns, every other reference having an owner too
RuleOrder(emptyIsList) ==
    last.op = "r_to_py" =>
        /\ IF NoRule(last.hx, emptyIsList)
           THEN last.out = "fault" /\ held = NULL
           ELSE /\ last.out = "ok"
                /\ IsGuestOf(dyn, held, last.hx)
                /\ last.delta = 1
        /\ \A o \in ObjIds :
              rc[o] = Rc0[o] + wraps[o] + LiveContainersHolding(o)
                      + (IF held = o THEN 1 ELSE 0)

\* C9 as stated: r_to_py applies the first matching rule of: null, wrapped
\* value, dimensioned value, typed vector of length 1, typed vector of length
\* greater than 1, named generic list, generic list, and a fault for any
\* other value, a typed vector of length 0 among them
C9_AsStated == RuleOrder(FALSE)

\* C9: r_to_py applies the first matching rule of: null gives None, a wrapped
\* value its reference, a dimensioned value an array (a fault unless integer,
\* floating or logical), a typed vector of length 1 a scalar of its kind, a
\* typed vector of any other length, 0 included, a list of that length of
\* scalars of its kind in order, a named generic list a mapping keyed by the
\* names, a generic list a tuple of its length, any other value a fault; the
\* returned reference carries exactly one count owned by the caller
C9_RuleOrder == RuleOrder(TRUE)

\* r_to_py has given a list for a typed vector of length 2, and an empty
\* list for one of length 0
C9_Witness ==
    /\ last.op = "r_to_py"
    /\ last.out = "ok"
    /\ last.hx.type \in VectorTypes
    /\ ~last.hx.hasDim
    /\ Len(Elts(last.hx)) = 0
    /\ dyn[held].t = "list"
    /\ rc[held] = 1

\* a host scalar of the kinds the round trip is stated for
IsHostScalar(x) ==
    /\ x.type \in VectorTypes
    /\ ~x.hasDim
    /\ ~x.hasNames
    /\ x.cls = <<>>
    /\ Len(Elts(x)) = 1
    /\ x.type = "LGLSXP" => x.v[1] \in {0, 1}
    /\ x.type = "INTSXP" => x.v[1] \in LongMin..LongMax

\* C10: py_to_r(r_to_py(x)) of a host scalar x (boolean, integer, double,
\* string) is a host scalar of the kind of x and equal to x
C10_ScalarRoundTrip ==
    (last.op = "round_trip" /\ IsHostScalar(last.hx)) =>
        last.out = "ok" /\ last.val = last.hx

----------------------------------------------------------------------------
(* Arrays across the bridge *)

\* the dimensioned host values r_to_py is given: vectors of two elements of
\* each convertible kind (IntMin is the host NA of an integer or logical) in
\* each shape of two elements, a 2 x 2 integer matrix, and a character matrix
HostArrays ==
    {RArray(HV(type, <<a, b>>), dims) :
        type \in {"INTSXP", "REALSXP", "LGLSXP"}, a \in {0, 1, IntMin},
        b \in {0, 1, IntMin}, dims \in {<<2>>, <<2, 1>>, <<1, 2>>}}
      \cup {RArray(RInt(<<0, 1, 2, 3>>), <<2, 2>>),
            RArray(RStr(<<<<1>>>>), <<1>>)}

NextArray ==
    \/ \E hx \in HostArrays : Conv_r_to_py(hx)
    \/ \E ubc \in UBOutcomes : Conv_round_trip(ubc)
    \/ Conv_release
    \/ \E x \in {Id("arr_c"), Id("arr_f"), Id("arr_cplx")}, ubc \in UBOutcomes :
          Conv_py_to_r(x, ubc)

SpecArray == Init /\ [][NextArray]_vars

\* the index tuples of an array of shape dims, from 0
IndexTuples(dims) ==
    {idx \in [1..Len(dims) -> 0..IntMax] : \A k \in 1..Len(dims) : idx[k] < dims[k]}

\* the offset of the element at idx in column-major order: the first index
\* runs fastest
RECURSIVE ColumnMajor(_, _)
ColumnMajor(idx, dims) ==
    IF dims = <<>> THEN 0
    ELSE Head(idx) + Head(dims) * ColumnMajor(Tail(idx), Tail(dims))

\* the offset of the element at idx in row-major order: the last index runs
\* fastest
RECURSIVE RowMajor(_, _)
RowMajor(idx, dims) ==
    IF dims = <<>> THEN 0
    ELSE Head(idx) * Prod(Tail(dims)) + RowMajor(Tail(idx), Tail(dims))

\* the host kind of the elements of a guest array of a supported type
ArrayKind(typenum) ==
    CASE ArrayTarget(typenum) = "NPY_BOOL" -> "LGLSXP"
      [] ArrayTarget(typenum) = "NPY_LONG" -> "INTSXP"
      [] ArrayTarget(typenum) = "NPY_DOUBLE" -> "REALSXP"
      [] OTHER -> "none"

\* C11: py_to_r(r_to_py(x)) of a dimensioned host value x of kind integer,
\* floating or logical is a host array of the kind and the shape of x whose
\* elements equal those of x at every column-major index; and py_to_r of a
\* guest array of a supported element type is a host array of the shape of
\* the guest array whose element at every column-major index is the guest
\* element at that index tuple, whatever the memory order of the guest array
C11_ArrayRoundTrip ==
    /\ (/\ last.op = "round_trip"
        /\ last.hx.hasDim
        /\ last.hx.type \in {"INTSXP", "REALSXP", "LGLSXP"}) =>
          /\ last.out = "ok"
          /\ last.val.type = last.hx.type
          /\ last.val.hasDim
          /\ last.val.dim = last.hx.dim
          /\ Len(last.val.v) = Len(last.hx.v)
          /\ \A f \in 1..Len(last.hx.v) : last.val.v[f] = last.hx.v[f]
    /\ (/\ last.op = "py_to_r"
        /\ dyn[last.x].t = "ndarray"
        /\ ArrayTarget(dyn[last.x].arr.typenum) # "unsupported") =>
          LET a == dyn[last.x].arr
          IN /\ last.out = "ok"
             /\ last.val.type = ArrayKind(a.typenum)
             /\ last.val.hasDim
             /\ last.val.dim = a.dims
             /\ Len(last.val.v) = Prod(a.dims)
             /\ \A idx \in IndexTuples(a.dims) :
                   last.val.v[ColumnMajor(idx, a.dims) + 1]
                     = a.data[(IF a.forder THEN ColumnMajor(idx, a.dims)
                               ELSE RowMajor(idx, a.dims)) + 1]

====
